---- MODULE Spec2Model ----
(***************************************************************************)
(* Model of the Slack "send message" action (src/src/script.mjs) and of    *)
(* the helpers it imports from @sgnl-actions/utils, as bundled in          *)
(* src/dist/index.js: getBaseURL, getAuthorizationHeader and               *)
(* getClientCredentialsToken.                                              *)
(*                                                                         *)
(* JavaScript strings that the code inspects (trim, startsWith, endsWith,  *)
(* slice, btoa, template concatenation) are sequences of one-character     *)
(* strings.  JavaScript objects are functions whose DOMAIN is the set of   *)
(* keys that are present; an absent key reads as undefined.  Error         *)
(* messages are sequences of the fragments the template literal joins.     *)
(***************************************************************************)
EXTENDS Integers, Sequences, FiniteSets, TLC

VARIABLES params, context, calls, pc, requests, responses, authHeader,
          result, error, previous, handled, log

vars == <<params, context, calls, pc, requests, responses, authHeader,
          result, error, previous, handled, log>>

(* Number of invoke calls the framework makes in one behaviour. *)
MaxCalls == 2

-----------------------------------------------------------------------------
(* JavaScript string primitives *)

Whitespace == {" ", "\t", "\n"}

RECURSIVE TrimStart(_)
TrimStart(s) ==
    IF s # <<>> /\ Head(s) \in Whitespace THEN TrimStart(Tail(s)) ELSE s

RECURSIVE TrimEnd(_)
TrimEnd(s) ==
    IF s # <<>> /\ s[Len(s)] \in Whitespace
    THEN TrimEnd(SubSeq(s, 1, Len(s) - 1))
    ELSE s

(* String.prototype.trim *)
Trim(s) == TrimEnd(TrimStart(s))

(* String.prototype.startsWith *)
StartsWith(s, prefix) ==
    /\ Len(s) >= Len(prefix)
    /\ SubSeq(s, 1, Len(prefix)) = prefix

(* String.prototype.endsWith *)
EndsWith(s, suffix) ==
    /\ Len(s) >= Len(suffix)
    /\ SubSeq(s, Len(s) - Len(suffix) + 1, Len(s)) = suffix

(* s.slice(0, -1) *)
SliceDropLast(s) == SubSeq(s, 1, Len(s) - 1)

(* obj[key] is a truthy string: present and not the empty string *)
Truthy(obj, key) == key \in DOMAIN obj /\ obj[key] # <<>>

(* An object with the key k bound to the value of a one-element option     *)
(* and no key at all for the empty option.                                 *)
Field(k, opt) == IF opt = <<>> THEN <<>> ELSE (k :> opt[1])

-----------------------------------------------------------------------------
(* btoa: base64 of an ASCII string *)

B64Alphabet ==
    <<"A","B","C","D","E","F","G","H","I","J","K","L","M","N","O","P",
      "Q","R","S","T","U","V","W","X","Y","Z","a","b","c","d","e","f",
      "g","h","i","j","k","l","m","n","o","p","q","r","s","t","u","v",
      "w","x","y","z","0","1","2","3","4","5","6","7","8","9","+","/">>

(* ASCII code of the characters that occur in credentials of the model *)
CharCode(c) ==
    CASE c = ":" -> 58
      [] c = "c" -> 99
      [] c = "i" -> 105
      [] c = "p" -> 112
      [] c = "s" -> 115
      [] c = "u" -> 117

RECURSIVE btoa(_)
btoa(s) ==
    IF s = <<>> THEN <<>>
    ELSE LET n  == IF Len(s) >= 3 THEN 3 ELSE Len(s)
             b1 == CharCode(s[1])
             b2 == IF n >= 2 THEN CharCode(s[2]) ELSE 0
             b3 == IF n >= 3 THEN CharCode(s[3]) ELSE 0
             w  == b1 * 65536 + b2 * 256 + b3
             c1 == B64Alphabet[(w \div 262144) + 1]
             c2 == B64Alphabet[((w \div 4096) % 64) + 1]
             c3 == IF n >= 2 THEN B64Alphabet[((w \div 64) % 64) + 1] ELSE "="
             c4 == IF n >= 3 THEN B64Alphabet[(w % 64) + 1] ELSE "="
         IN  <<c1, c2, c3, c4>> \o btoa(SubSeq(s, n + 1, Len(s)))

-----------------------------------------------------------------------------
(* Literals of the code *)

SGNL_USER_AGENT == "SGNL-CAEP-Hub/2.0"

BearerPrefix == <<"B","e","a","r","e","r"," ">>
BasicPrefix  == <<"B","a","s","i","c"," ">>
ApiPath ==
    <<"/","a","p","i","/","c","h","a","t",".","p","o","s","t",
      "M","e","s","s","a","g","e">>
InParams == <<"I","n","P","a","r","a","m","s">>
ClientCredentialsGrant ==
    <<"c","l","i","e","n","t","_","c","r","e","d","e","n","t","i","a","l","s">>

TextRequiredMsg    == <<"text parameter is required and cannot be empty">>
ChannelRequiredMsg == <<"channel parameter is required for API mode">>
NoUrlMsg ==
    <<"No URL specified. Provide address parameter or ADDRESS environment variable">>
NoAuthMsg ==
    <<"No authentication configured", ". Provide one of: ",
      "BEARER_AUTH_TOKEN, BASIC_USERNAME/BASIC_PASSWORD, ",
      "OAUTH2_AUTHORIZATION_CODE_ACCESS_TOKEN, or OAUTH2_CLIENT_CREDENTIALS_*">>
CCEnvMsg ==
    <<"OAuth2 Client Credentials flow requires TOKEN_URL and CLIENT_ID in env">>
CCConfigMsg ==
    <<"OAuth2 Client Credentials flow requires tokenUrl, clientId, and clientSecret">>
NoAccessTokenMsg == <<"No access_token in OAuth2 response">>

(* Errors raised by the runtime, not by the code of the action *)
JsonSyntaxError  == <<"SyntaxError: Unexpected token in JSON">>
BodyUnusableError == <<"TypeError: Body is unusable">>
FetchFailedError == <<"TypeError: fetch failed">>

-----------------------------------------------------------------------------
(* Address resolver *)

(* context.environment || {} *)
Env(ctx) == IF "environment" \in DOMAIN ctx THEN ctx.environment ELSE <<>>

(* context.secrets || {} *)
Secrets(ctx) == IF "secrets" \in DOMAIN ctx THEN ctx.secrets ELSE <<>>

(* params?.address || env.ADDRESS, as an option: <<>> when the value is    *)
(* undefined.                                                              *)
ChosenAddress(p, ctx) ==
    IF Truthy(p, "address") THEN <<p.address>>
    ELSE IF "ADDRESS" \in DOMAIN Env(ctx) THEN <<Env(ctx).ADDRESS>>
    ELSE <<>>

(* Removing every trailing slash *)
RECURSIVE StripTrailingSlash_All(_)
StripTrailingSlash_All(address) ==
    IF EndsWith(address, <<"/">>)
    THEN StripTrailingSlash_All(SliceDropLast(address))
    ELSE address

StripTrailingSlash(address) ==
    IF EndsWith(address, <<"/">>) THEN SliceDropLast(address) ELSE address

getBaseURL(p, ctx) ==
    LET address == ChosenAddress(p, ctx)
    IN  IF address = <<>> \/ address[1] = <<>>
        THEN [ok |-> FALSE, error |-> NoUrlMsg]
        ELSE [ok |-> TRUE, value |-> StripTrailingSlash(address[1])]

-----------------------------------------------------------------------------
(* Authorization resolver *)

(* The prefix added whatever the token starts with *)
BearerHeader_AlwaysPrefix(token) == BearerPrefix \o token

(* token.startsWith('Bearer ') ? token : `Bearer ${token}` *)
BearerHeader(token) ==
    IF StartsWith(token, BearerPrefix) THEN token ELSE BearerPrefix \o token

(* `Basic ${btoa(`${username}:${password}`)}` *)
BasicHeader(username, password) ==
    BasicPrefix \o btoa(username \o <<":">> \o password)

(* The exchange sending the Basic header whatever the style is *)
getClientCredentialsToken_BasicAlways(config) ==
    IF ~Truthy(config, "tokenUrl") \/ ~Truthy(config, "clientId")
          \/ ~Truthy(config, "clientSecret")
    THEN [ok |-> FALSE, error |-> CCConfigMsg]
    ELSE
    LET inParams == "authStyle" \in DOMAIN config /\ config.authStyle = InParams
        form == <<  <<"grant_type", ClientCredentialsGrant>>  >>
                \o (IF Truthy(config, "scope")
                    THEN << <<"scope", config.scope>> >> ELSE <<>>)
                \o (IF Truthy(config, "audience")
                    THEN << <<"audience", config.audience>> >> ELSE <<>>)
                \o (IF inParams
                    THEN << <<"client_id", config.clientId>>,
                            <<"client_secret", config.clientSecret>> >>
                    ELSE <<>>)
        headers == ("Content-Type" :> "application/x-www-form-urlencoded")
                   @@ ("Accept" :> "application/json")
                   @@ ("User-Agent" :> SGNL_USER_AGENT)
                   @@ ("Authorization" :>
                         BasicHeader(config.clientId, config.clientSecret))
    IN  [ok |-> TRUE,
         request |-> [kind |-> "token", url |-> config.tokenUrl,
                      method |-> "POST", headers |-> headers, body |-> form]]

(* The request getClientCredentialsToken passes to fetch, or the error it  *)
(* throws before fetching.  config has the keys that are not undefined.    *)
getClientCredentialsToken(config) ==
    IF ~Truthy(config, "tokenUrl") \/ ~Truthy(config, "clientId")
          \/ ~Truthy(config, "clientSecret")
    THEN [ok |-> FALSE, error |-> CCConfigMsg]
    ELSE
    LET inParams == "authStyle" \in DOMAIN config /\ config.authStyle = InParams
        form == <<  <<"grant_type", ClientCredentialsGrant>>  >>
                \o (IF Truthy(config, "scope")
                    THEN << <<"scope", config.scope>> >> ELSE <<>>)
                \o (IF Truthy(config, "audience")
                    THEN << <<"audience", config.audience>> >> ELSE <<>>)
                \o (IF inParams
                    THEN << <<"client_id", config.clientId>>,
                            <<"client_secret", config.clientSecret>> >>
                    ELSE <<>>)
        headers == ("Content-Type" :> "application/x-www-form-urlencoded")
                   @@ ("Accept" :> "application/json")
                   @@ ("User-Agent" :> SGNL_USER_AGENT)
                   @@ (IF inParams THEN <<>>
                       ELSE ("Authorization" :>
                               BasicHeader(config.clientId, config.clientSecret)))
    IN  [ok |-> TRUE,
         request |-> [kind |-> "token", url |-> config.tokenUrl,
                      method |-> "POST", headers |-> headers, body |-> form]]

(* The config object getAuthorizationHeader passes on *)
ClientCredentialsConfig(ctx) ==
    LET env == Env(ctx)
        Opt(k, obj, from) == IF from \in DOMAIN obj THEN (k :> obj[from]) ELSE <<>>
    IN  Opt("tokenUrl", env, "OAUTH2_CLIENT_CREDENTIALS_TOKEN_URL")
        @@ Opt("clientId", env, "OAUTH2_CLIENT_CREDENTIALS_CLIENT_ID")
        @@ Opt("clientSecret", Secrets(ctx), "OAUTH2_CLIENT_CREDENTIALS_CLIENT_SECRET")
        @@ Opt("scope", env, "OAUTH2_CLIENT_CREDENTIALS_SCOPE")
        @@ Opt("audience", env, "OAUTH2_CLIENT_CREDENTIALS_AUDIENCE")
        @@ Opt("authStyle", env, "OAUTH2_CLIENT_CREDENTIALS_AUTH_STYLE")

(* Method 4 of getAuthorizationHeader: the client-credentials flow up to   *)
(* its throw or to the fetch of the token exchange.                        *)
ClientCredentialsMethod(ctx) ==
    IF ~Truthy(Env(ctx), "OAUTH2_CLIENT_CREDENTIALS_TOKEN_URL")
          \/ ~Truthy(Env(ctx), "OAUTH2_CLIENT_CREDENTIALS_CLIENT_ID")
    THEN [kind |-> "throw", error |-> CCEnvMsg]
    ELSE LET t == getClientCredentialsToken(ClientCredentialsConfig(ctx))
         IN  IF t.ok THEN [kind |-> "exchange", request |-> t.request]
             ELSE [kind |-> "throw", error |-> t.error]

(* getAuthorizationHeader trying the basic pair before the bearer secret *)
getAuthorizationHeader_BasicFirst(ctx) ==
    LET secrets == Secrets(ctx)
    IN  IF Truthy(secrets, "BASIC_PASSWORD") /\ Truthy(secrets, "BASIC_USERNAME")
        THEN [kind |-> "header",
              value |-> BasicHeader(secrets.BASIC_USERNAME, secrets.BASIC_PASSWORD)]
        ELSE IF Truthy(secrets, "BEARER_AUTH_TOKEN")
        THEN [kind |-> "header", value |-> BearerHeader(secrets.BEARER_AUTH_TOKEN)]
        ELSE IF Truthy(secrets, "OAUTH2_AUTHORIZATION_CODE_ACCESS_TOKEN")
        THEN [kind |-> "header",
              value |-> BearerHeader(secrets.OAUTH2_AUTHORIZATION_CODE_ACCESS_TOKEN)]
        ELSE IF Truthy(secrets, "OAUTH2_CLIENT_CREDENTIALS_CLIENT_SECRET")
        THEN ClientCredentialsMethod(ctx)
        ELSE [kind |-> "throw", error |-> NoAuthMsg]

(* getAuthorizationHeader without its final throw: it returns undefined,   *)
(* which the template of the header turns into the text 'undefined'.       *)
getAuthorizationHeader_NoThrow(ctx) ==
    LET secrets == Secrets(ctx)
    IN  IF Truthy(secrets, "BEARER_AUTH_TOKEN")
        THEN [kind |-> "header", value |-> BearerHeader(secrets.BEARER_AUTH_TOKEN)]
        ELSE IF Truthy(secrets, "BASIC_PASSWORD") /\ Truthy(secrets, "BASIC_USERNAME")
        THEN [kind |-> "header",
              value |-> BasicHeader(secrets.BASIC_USERNAME, secrets.BASIC_PASSWORD)]
        ELSE IF Truthy(secrets, "OAUTH2_AUTHORIZATION_CODE_ACCESS_TOKEN")
        THEN [kind |-> "header",
              value |-> BearerHeader(secrets.OAUTH2_AUTHORIZATION_CODE_ACCESS_TOKEN)]
        ELSE IF Truthy(secrets, "OAUTH2_CLIENT_CREDENTIALS_CLIENT_SECRET")
        THEN ClientCredentialsMethod(ctx)
        ELSE [kind |-> "header",
              value |-> <<"u","n","d","e","f","i","n","e","d">>]

(* The basic scheme matching on either of its two secrets *)
getAuthorizationHeader_BasicEither(ctx) ==
    LET secrets == Secrets(ctx)
    IN  IF Truthy(secrets, "BEARER_AUTH_TOKEN")
        THEN [kind |-> "header", value |-> BearerHeader(secrets.BEARER_AUTH_TOKEN)]
        ELSE IF Truthy(secrets, "BASIC_PASSWORD") \/ Truthy(secrets, "BASIC_USERNAME")
        THEN [kind |-> "header",
              value |-> BasicPrefix \o <<"d","T","p","w">>]
        ELSE IF Truthy(secrets, "OAUTH2_AUTHORIZATION_CODE_ACCESS_TOKEN")
        THEN [kind |-> "header",
              value |-> BearerHeader(secrets.OAUTH2_AUTHORIZATION_CODE_ACCESS_TOKEN)]
        ELSE IF Truthy(secrets, "OAUTH2_CLIENT_CREDENTIALS_CLIENT_SECRET")
        THEN ClientCredentialsMethod(ctx)
        ELSE [kind |-> "throw", error |-> NoAuthMsg]

(* getAuthorizationHeader up to its return, its throw or the fetch of the  *)
(* token exchange: kind is "header", "throw" or "exchange".                *)
getAuthorizationHeader(ctx) ==
    LET secrets == Secrets(ctx)
    IN  IF Truthy(secrets, "BEARER_AUTH_TOKEN")
        THEN [kind |-> "header", value |-> BearerHeader(secrets.BEARER_AUTH_TOKEN)]
        ELSE IF Truthy(secrets, "BASIC_PASSWORD") /\ Truthy(secrets, "BASIC_USERNAME")
        THEN [kind |-> "header",
              value |-> BasicHeader(secrets.BASIC_USERNAME, secrets.BASIC_PASSWORD)]
        ELSE IF Truthy(secrets, "OAUTH2_AUTHORIZATION_CODE_ACCESS_TOKEN")
        THEN [kind |-> "header",
              value |-> BearerHeader(secrets.OAUTH2_AUTHORIZATION_CODE_ACCESS_TOKEN)]
        ELSE IF Truthy(secrets, "OAUTH2_CLIENT_CREDENTIALS_CLIENT_SECRET")
        THEN ClientCredentialsMethod(ctx)
        ELSE [kind |-> "throw", error |-> NoAuthMsg]

-----------------------------------------------------------------------------
(* Requests and responses *)

(* response.ok of fetch: the status is in the range 200-299 *)
ResponseOk(resp) == resp.status >= 200 /\ resp.status <= 299

(* JSON.stringify of a payload object is modelled by the object itself:    *)
(* the keys and values the receiver parses out of the body.                *)
sendMessageViaWebhookRequest(text, webhookUrl) ==
    [kind |-> "send", url |-> webhookUrl, method |-> "POST",
     headers |-> ("Content-Type" :> "application/json")
                 @@ ("User-Agent" :> SGNL_USER_AGENT),
     body |-> [text |-> text]]

(* The request of sendMessageViaAPI with the text and the channel trimmed *)
sendMessageViaAPIRequest_Trims(text, channel, header, apiUrl) ==
    [kind |-> "send", url |-> apiUrl \o ApiPath, method |-> "POST",
     headers |-> ("Authorization" :> header)
                 @@ ("Content-Type" :> "application/json")
                 @@ ("User-Agent" :> SGNL_USER_AGENT),
     body |-> [text |-> Trim(text), channel |-> Trim(channel)]]

sendMessageViaAPIRequest(text, channel, header, apiUrl) ==
    [kind |-> "send", url |-> apiUrl \o ApiPath, method |-> "POST",
     headers |-> ("Authorization" :> header)
                 @@ ("Content-Type" :> "application/json")
                 @@ ("User-Agent" :> SGNL_USER_AGENT),
     body |-> [text |-> text, channel |-> channel]]

(* sendMessageViaWebhook taking every 2xx response as acknowledged *)
sendMessageViaWebhook_AlwaysOk(resp) ==
    IF ~(resp.status >= 200 /\ resp.status <= 299)
    THEN [ok |-> FALSE, bodyRead |-> FALSE,
          error |-> <<"Webhook request failed: ", ToString(resp.status),
                      " ", resp.statusText>>]
    ELSE [ok |-> TRUE, bodyRead |-> TRUE,
          value |-> [ok |-> TRUE, text |-> resp.raw, status |-> resp.status]]

(* What sendMessageViaWebhook makes of the response: the value it returns  *)
(* or the error it throws, and whether it read the body.                   *)
sendMessageViaWebhook(resp) ==
    IF ~ResponseOk(resp)
    THEN [ok |-> FALSE, bodyRead |-> FALSE,
          error |-> <<"Webhook request failed: ", ToString(resp.status),
                      " ", resp.statusText>>]
    ELSE [ok |-> TRUE, bodyRead |-> TRUE,
          value |-> [ok |-> resp.raw = "ok", text |-> resp.raw,
                     status |-> resp.status]]

(* result.error || 'Unknown error' *)
PlatformErrorCode(body) ==
    IF "error" \in DOMAIN body /\ body.error # "" THEN body.error
    ELSE "Unknown error"

(* sendMessageViaAPI returning the parsed body without looking at its ok *)
sendMessageViaAPI_NoOkCheck(resp) ==
    IF ~ResponseOk(resp)
    THEN [ok |-> FALSE, bodyRead |-> FALSE,
          error |-> <<"Slack API request failed: ", ToString(resp.status),
                      " ", resp.statusText>>]
    ELSE IF resp.parsed = <<>>
    THEN [ok |-> FALSE, bodyRead |-> TRUE, error |-> JsonSyntaxError]
    ELSE [ok |-> TRUE, bodyRead |-> TRUE,
          value |-> resp.parsed[1] @@ [ok |-> FALSE]]

(* sendMessageViaAPI parsing the body before it looks at the status *)
sendMessageViaAPI_BodyFirst(resp) ==
    IF resp.parsed = <<>>
    THEN IF ~ResponseOk(resp)
         THEN [ok |-> FALSE, bodyRead |-> TRUE,
               error |-> <<"Slack API request failed: ", ToString(resp.status),
                           " ", resp.statusText>>]
         ELSE [ok |-> FALSE, bodyRead |-> TRUE, error |-> JsonSyntaxError]
    ELSE LET body == resp.parsed[1]
         IN  IF ~("ok" \in DOMAIN body /\ body.ok)
             THEN [ok |-> FALSE, bodyRead |-> TRUE,
                   error |-> <<"Slack API error: ", PlatformErrorCode(body)>>]
             ELSE [ok |-> TRUE, bodyRead |-> TRUE, value |-> body]

sendMessageViaAPI(resp) ==
    IF ~ResponseOk(resp)
    THEN [ok |-> FALSE, bodyRead |-> FALSE,
          error |-> <<"Slack API request failed: ", ToString(resp.status),
                      " ", resp.statusText>>]
    ELSE IF resp.parsed = <<>>
    THEN [ok |-> FALSE, bodyRead |-> TRUE, error |-> JsonSyntaxError]
    ELSE LET body == resp.parsed[1]
         IN  IF ~("ok" \in DOMAIN body /\ body.ok)
             THEN [ok |-> FALSE, bodyRead |-> TRUE,
                   error |-> <<"Slack API error: ", PlatformErrorCode(body)>>]
             ELSE [ok |-> TRUE, bodyRead |-> TRUE, value |-> body]

(* The exchange taking the token of the body without checking it is set *)
TokenExchangeResult_NoTokenCheck(resp) ==
    IF ~ResponseOk(resp)
    THEN IF resp.parsed # <<>>
         THEN [ok |-> FALSE, bodyRead |-> TRUE,
               error |-> <<"OAuth2 token request failed: ",
                           ToString(resp.status), " ", resp.statusText,
                           " - ", resp.raw>>]
         ELSE [ok |-> FALSE, bodyRead |-> TRUE, error |-> BodyUnusableError]
    ELSE IF resp.parsed = <<>>
    THEN [ok |-> FALSE, bodyRead |-> TRUE, error |-> JsonSyntaxError]
    ELSE LET data == resp.parsed[1]
         IN  [ok |-> TRUE, bodyRead |-> TRUE,
              value |-> BearerPrefix \o (IF "access_token" \in DOMAIN data
                                         THEN data.access_token
                                         ELSE <<"u","n","d","e","f","i","n","e","d">>)]

(* What getClientCredentialsToken makes of the response of the exchange.   *)
(* On a non-2xx status it reads the body with json() and, when that        *)
(* fails, with text(); the body was consumed by json(), so text() rejects. *)
TokenExchangeResult(resp) ==
    IF ~ResponseOk(resp)
    THEN IF resp.parsed # <<>>
         THEN [ok |-> FALSE, bodyRead |-> TRUE,
               error |-> <<"OAuth2 token request failed: ",
                           ToString(resp.status), " ", resp.statusText,
                           " - ", resp.raw>>]
         ELSE [ok |-> FALSE, bodyRead |-> TRUE, error |-> BodyUnusableError]
    ELSE IF resp.parsed = <<>>
    THEN [ok |-> FALSE, bodyRead |-> TRUE, error |-> JsonSyntaxError]
    ELSE LET data == resp.parsed[1]
         IN  IF ~Truthy(data, "access_token")
             THEN [ok |-> FALSE, bodyRead |-> TRUE, error |-> NoAccessTokenMsg]
             ELSE [ok |-> TRUE, bodyRead |-> TRUE,
                   value |-> BearerPrefix \o data.access_token]

-----------------------------------------------------------------------------
(* invoke *)

(* const { isWebhook = false } = params *)
IsWebhook(p) == IF "isWebhook" \in DOMAIN p THEN p.isWebhook ELSE FALSE

(* The text check without the trim *)
TextBlank_NoTrim(p) == ~Truthy(p, "text")

(* !text || text.trim().length === 0 *)
TextBlank(p) == ~Truthy(p, "text") \/ Len(Trim(p.text)) = 0

(* The channel check without the trim *)
ChannelBlank_NoTrim(p) == ~Truthy(p, "channel")

(* !channel || channel.trim().length === 0 *)
ChannelBlank(p) == ~Truthy(p, "channel") \/ Len(Trim(p.channel)) = 0

NoResult == <<>>
NoError  == <<>>

(* invoke throws: the promise it returned rejects with the error *)
Throw(msg, reqs, header) ==
    [pc |-> "failed", requests |-> reqs, authHeader |-> header,
     result |-> NoResult, error |-> msg]

(* invoke suspends on a fetch it has just issued *)
Await(at, reqs, header) ==
    [pc |-> at, requests |-> reqs, authHeader |-> header,
     result |-> NoResult, error |-> NoError]

(* invoke returns a value *)
Return(value, reqs, header) ==
    [pc |-> "returned", requests |-> reqs, authHeader |-> header,
     result |-> <<value>>, error |-> NoError]

(* API mode from the point where the authorization header is known:        *)
(* getBaseURL, then the fetch of sendMessageViaAPI.                        *)
InvokeApiSend(p, ctx, header, reqs) ==
    LET apiUrl == getBaseURL(p, ctx)
    IN  IF ~apiUrl.ok THEN Throw(apiUrl.error, reqs, <<header>>)
        ELSE Await("awaitSend",
                   Append(reqs, sendMessageViaAPIRequest(p.text, p.channel,
                                                         header, apiUrl.value)),
                   <<header>>)

(* invoke resolving the authorization header in webhook mode too, and     *)
(* sending it                                                              *)
InvokeStart_WebhookAuth(p, ctx) ==
    IF TextBlank(p) THEN Throw(TextRequiredMsg, <<>>, <<>>)
    ELSE IF IsWebhook(p)
    THEN LET webhookUrl == getBaseURL(p, ctx)
             auth == getAuthorizationHeader(ctx)
             req == sendMessageViaWebhookRequest(p.text, webhookUrl.value)
         IN  IF ~webhookUrl.ok THEN Throw(webhookUrl.error, <<>>, <<>>)
             ELSE IF auth.kind = "header"
             THEN Await("awaitSend",
                        << [req EXCEPT !.headers =
                              @ @@ ("Authorization" :> auth.value)] >>,
                        <<auth.value>>)
             ELSE Await("awaitSend", <<req>>, <<>>)
    ELSE IF ChannelBlank(p) THEN Throw(ChannelRequiredMsg, <<>>, <<>>)
    ELSE LET auth == getAuthorizationHeader(ctx)
         IN  CASE auth.kind = "throw"    -> Throw(auth.error, <<>>, <<>>)
               [] auth.kind = "header"   -> InvokeApiSend(p, ctx, auth.value, <<>>)
               [] auth.kind = "exchange" -> Await("awaitToken", <<auth.request>>, <<>>)

(* invoke resolving the address before the authorization header *)
InvokeStart_AddressFirst(p, ctx) ==
    IF TextBlank(p) THEN Throw(TextRequiredMsg, <<>>, <<>>)
    ELSE IF IsWebhook(p)
    THEN LET webhookUrl == getBaseURL(p, ctx)
         IN  IF ~webhookUrl.ok THEN Throw(webhookUrl.error, <<>>, <<>>)
             ELSE Await("awaitSend",
                        <<sendMessageViaWebhookRequest(p.text, webhookUrl.value)>>,
                        <<>>)
    ELSE IF ChannelBlank(p) THEN Throw(ChannelRequiredMsg, <<>>, <<>>)
    ELSE IF ~getBaseURL(p, ctx).ok THEN Throw(getBaseURL(p, ctx).error, <<>>, <<>>)
    ELSE LET auth == getAuthorizationHeader(ctx)
         IN  CASE auth.kind = "throw"    -> Throw(auth.error, <<>>, <<>>)
               [] auth.kind = "header"   -> InvokeApiSend(p, ctx, auth.value, <<>>)
               [] auth.kind = "exchange" -> Await("awaitToken", <<auth.request>>, <<>>)

(* invoke from its call to its first fetch or to its throw *)
InvokeStart(p, ctx) ==
    IF TextBlank(p) THEN Throw(TextRequiredMsg, <<>>, <<>>)
    ELSE IF IsWebhook(p)
    THEN LET webhookUrl == getBaseURL(p, ctx)
         IN  IF ~webhookUrl.ok THEN Throw(webhookUrl.error, <<>>, <<>>)
             ELSE Await("awaitSend",
                        <<sendMessageViaWebhookRequest(p.text, webhookUrl.value)>>,
                        <<>>)
    ELSE IF ChannelBlank(p) THEN Throw(ChannelRequiredMsg, <<>>, <<>>)
    ELSE LET auth == getAuthorizationHeader(ctx)
         IN  CASE auth.kind = "throw"    -> Throw(auth.error, <<>>, <<>>)
               [] auth.kind = "header"   -> InvokeApiSend(p, ctx, auth.value, <<>>)
               [] auth.kind = "exchange" -> Await("awaitToken", <<auth.request>>, <<>>)

(* invoke from the response of the token exchange to the send fetch *)
InvokeAfterToken(p, ctx, resp, reqs) ==
    LET t == TokenExchangeResult(resp)
    IN  IF ~t.ok THEN Throw(t.error, reqs, <<>>)
        ELSE InvokeApiSend(p, ctx, t.value, reqs)

(* The value invoke returns in webhook mode; r is what                     *)
(* sendMessageViaWebhook returned.                                         *)
WebhookResult(p, r) ==
    [status |-> "success", text |-> p.text, ok |-> r.ok, mode |-> "webhook"]

(* The API result echoing the channel of the response body *)
ApiResult_ResponseChannel(p, body) ==
    [status |-> "success", text |-> p.text,
     channel |-> IF "channel" \in DOMAIN body THEN body.channel ELSE p.channel,
     ok |-> body.ok, mode |-> "api"]
    @@ (IF "ts" \in DOMAIN body THEN ("ts" :> body.ts) ELSE <<>>)

(* The value invoke returns in API mode; body is the parsed response that  *)
(* sendMessageViaAPI returned.  A ts that is undefined is an absent key.   *)
ApiResult(p, body) ==
    [status |-> "success", text |-> p.text, channel |-> p.channel,
     ok |-> body.ok, mode |-> "api"]
    @@ (IF "ts" \in DOMAIN body THEN ("ts" :> body.ts) ELSE <<>>)

(* invoke sending the request once more when the response is not 2xx *)
InvokeAfterSend_Retry(p, resp, reqs, header) ==
    IF ~ResponseOk(resp) /\ Len(reqs) < 3
    THEN Await("awaitSend", Append(reqs, reqs[Len(reqs)]), header)
    ELSE IF IsWebhook(p)
    THEN LET r == sendMessageViaWebhook(resp)
         IN  IF ~r.ok THEN Throw(r.error, reqs, header)
             ELSE Return(WebhookResult(p, r.value), reqs, header)
    ELSE LET r == sendMessageViaAPI(resp)
         IN  IF ~r.ok THEN Throw(r.error, reqs, header)
             ELSE Return(ApiResult(p, r.value), reqs, header)

(* invoke catching the failure of the send and returning it as a value *)
InvokeAfterSend_ReturnsFailed(p, resp, reqs, header) ==
    IF IsWebhook(p)
    THEN LET r == sendMessageViaWebhook(resp)
         IN  IF ~r.ok
             THEN Return([status |-> "failed", text |-> p.text, ok |-> FALSE,
                          mode |-> "webhook"], reqs, header)
             ELSE Return(WebhookResult(p, r.value), reqs, header)
    ELSE LET r == sendMessageViaAPI(resp)
         IN  IF ~r.ok
             THEN Return([status |-> "failed", text |-> p.text,
                          channel |-> p.channel, ok |-> FALSE, mode |-> "api"],
                         reqs, header)
             ELSE Return(ApiResult(p, r.value), reqs, header)

(* invoke from the response of the send fetch to its return or throw *)
InvokeAfterSend(p, resp, reqs, header) ==
    IF IsWebhook(p)
    THEN LET r == sendMessageViaWebhook(resp)
         IN  IF ~r.ok THEN Throw(r.error, reqs, header)
             ELSE Return(WebhookResult(p, r.value), reqs, header)
    ELSE LET r == sendMessageViaAPI(resp)
         IN  IF ~r.ok THEN Throw(r.error, reqs, header)
             ELSE Return(ApiResult(p, r.value), reqs, header)

-----------------------------------------------------------------------------
(* The error handler and the halt handler.  The outcome of a handler call  *)
(* is the error it throws or the value it returns, each an option.         *)

NoOutcome == <<>>

(* The tokens of the error classification that a fragment of a message   *)
(* has as a substring                                                      *)
TokensIn(fragment) ==
    CASE fragment \in {"429", "401", "403", "502", "503", "504",
                       "invalid_auth", "channel_not_found"} -> {fragment}
      [] fragment \in {TextRequiredMsg[1], ChannelRequiredMsg[1]} -> {"is required"}
      [] OTHER -> {}

(* The message contains the token *)
Mentions(msg, token) == \E i \in DOMAIN msg : token \in TokensIn(msg[i])

FatalTokens == {"401", "403", "invalid_auth", "channel_not_found", "is required"}
ServerTokens == {"502", "503", "504"}
RetryRequested == [status |-> "retry_requested"]

(* The handler throwing a new error that wraps the one it was given *)
errorHandler_Wraps(p) ==
    [raised |-> << <<"Unrecoverable error: ">> \o p.error >>, returned |-> <<>>]

(* The handler asking for a retry whatever the error is *)
errorHandler_RetryRequested(p) ==
    [raised |-> <<>>, returned |-> <<RetryRequested>>]

(* The handler classifying the message: fatal tokens are rethrown, every   *)
(* other error asks for a retry                                            *)
errorHandler_Classifies(p) ==
    IF \E t \in FatalTokens : Mentions(p.error, t)
    THEN [raised |-> <<p.error>>, returned |-> <<>>]
    ELSE [raised |-> <<>>, returned |-> <<RetryRequested>>]

(* error(params, context): const { error } = params; throw error *)
errorHandler(p) ==
    [raised |-> <<p.error>>, returned |-> <<>>]

RECURSIVE Pow10(_)
Pow10(k) == IF k = 0 THEN 1 ELSE 10 * Pow10(k - 1)

(* The decimal digits of n, zero-padded to the width w *)
Pad(n, w) == [i \in 1..w |-> ToString((n \div Pow10(w - i)) % 10)]

(* Date.prototype.toISOString of the UTC date d: YYYY-MM-DDTHH:mm:ss.sssZ *)
toISOString(d) ==
    Pad(d.year, 4) \o <<"-">> \o Pad(d.month, 2) \o <<"-">> \o Pad(d.day, 2)
    \o <<"T">> \o Pad(d.hour, 2) \o <<":">> \o Pad(d.minute, 2)
    \o <<":">> \o Pad(d.second, 2) \o <<".">> \o Pad(d.ms, 3) \o <<"Z">>

(* halt putting a default in the place of a reason that is not given *)
halt_DefaultReason(p, now) ==
    [raised |-> <<>>,
     returned |-> << [status |-> "halted", halted_at |-> toISOString(now),
                      reason |-> IF "reason" \in DOMAIN p THEN p.reason
                                 ELSE "unknown"] >>]

(* halt(params, context) at the clock reading now *)
halt(p, now) ==
    [raised |-> <<>>,
     returned |-> << [status |-> "halted", halted_at |-> toISOString(now)]
                     @@ Field("reason", IF "reason" \in DOMAIN p
                                        THEN <<p.reason>> ELSE <<>>) >>]

-----------------------------------------------------------------------------
(* console.log.  A line is the text of its template literal and the        *)
(* strings interpolated into it, in order.                                 *)

Line(template, args) == [template |-> template, args |-> args]

Undefined == <<"u","n","d","e","f","i","n","e","d">>

(* The characters of the strings of response bodies and of halt reasons *)
CharsOf(str) ==
    CASE str = "123.456" -> <<"1","2","3",".","4","5","6">>
      [] str = "123.457" -> <<"1","2","3",".","4","5","7">>
      [] str = "timeout" -> <<"t","i","m","e","o","u","t">>
      [] str = "deadline" -> <<"d","e","a","d","l","i","n","e">>

(* The lines invoke writes on a bearer secret being logged with the mode *)
InvokeStartLog_Token(p, ctx) ==
    << Line("Starting Slack send message action", <<>>) >>
    \o (IF TextBlank(p) THEN <<>>
        ELSE IF IsWebhook(p) THEN << Line("Using webhook mode", <<>>) >>
        ELSE << Line("Using API mode",
                     IF Truthy(Secrets(ctx), "BEARER_AUTH_TOKEN")
                     THEN << Secrets(ctx).BEARER_AUTH_TOKEN >> ELSE <<>>) >>)

(* The lines invoke writes from its call to its first fetch or throw *)
InvokeStartLog(p, ctx) ==
    << Line("Starting Slack send message action", <<>>) >>
    \o (IF TextBlank(p) THEN <<>>
        ELSE IF IsWebhook(p) THEN << Line("Using webhook mode", <<>>) >>
        ELSE << Line("Using API mode", <<>>) >>)

(* The line invoke writes after the send, when the send succeeded *)
InvokeAfterSendLog(p, resp) ==
    IF IsWebhook(p)
    THEN LET r == sendMessageViaWebhook(resp)
         IN  IF ~r.ok THEN <<>>
             ELSE << Line("Message sent via webhook. Status: ${result.status}",
                          << Pad(r.value.status, 3) >>) >>
    ELSE LET r == sendMessageViaAPI(resp)
         IN  IF ~r.ok THEN <<>>
             ELSE << Line("Message sent via API to channel ${channel}. Timestamp: ${result.ts}",
                          << p.channel,
                             IF "ts" \in DOMAIN r.value THEN CharsOf(r.value.ts)
                             ELSE Undefined >>) >>

(* The error handler writes nothing *)
errorHandlerLog(p) == <<>>

(* The line halt writes *)
haltLog(p) ==
    << Line("Slack send message action halted: ${reason}",
            << IF "reason" \in DOMAIN p THEN CharsOf(p.reason) ELSE Undefined >>) >>

-----------------------------------------------------------------------------
(* Inputs: the params and the context the framework calls invoke with.     *)
(* An option is <<>> for an absent key and <<v>> for a key bound to v.     *)

TextOpts ==
    { <<>>, << <<>> >>, << <<" ", "\t">> >>, << <<"h", "i">> >>,
      << <<" ", "h", "i", " ">> >> }
ChannelOpts ==
    { <<>>, << <<>> >>, << <<" ">> >>, << <<"#", "c">> >>,
      << <<" ", "#", "c", " ">> >> }
IsWebhookOpts == { <<>>, <<TRUE>>, <<FALSE>> }
AddressOpts ==
    { <<>>, << <<>> >>, << <<"a">> >>, << <<"a", "/">> >>,
      << <<"a", "/", "/">> >>, << <<"/">> >> }
EnvAddressOpts == { <<>>, << <<>> >>, << <<"e", "/">> >> }

MkParams(text, channel, isWebhook, address) ==
    Field("text", text) @@ Field("channel", channel)
    @@ Field("isWebhook", isWebhook) @@ Field("address", address)

ParamsAll ==
    { MkParams(t, c, w, a) :
        t \in TextOpts, c \in ChannelOpts, w \in IsWebhookOpts, a \in AddressOpts }

ParamsSmall ==
    { MkParams(<< <<"h", "i">> >>, << <<"#", "c">> >>, <<>>, <<>>),
      MkParams(<< <<"h", "i">> >>, << <<"#", "c">> >>, <<TRUE>>, <<>>),
      MkParams(<< <<" ">> >>, << <<"#", "c">> >>, <<FALSE>>, <<>>),
      MkParams(<< <<"h", "i">> >>, <<>>, <<FALSE>>, << <<"a">> >>) }

MkSecrets(bearer, user, pass, oauth, cc) ==
    Field("BEARER_AUTH_TOKEN", bearer) @@ Field("BASIC_USERNAME", user)
    @@ Field("BASIC_PASSWORD", pass)
    @@ Field("OAUTH2_AUTHORIZATION_CODE_ACCESS_TOKEN", oauth)
    @@ Field("OAUTH2_CLIENT_CREDENTIALS_CLIENT_SECRET", cc)

MkEnv(address, tokenUrl, clientId, scope, audience, authStyle) ==
    Field("ADDRESS", address)
    @@ Field("OAUTH2_CLIENT_CREDENTIALS_TOKEN_URL", tokenUrl)
    @@ Field("OAUTH2_CLIENT_CREDENTIALS_CLIENT_ID", clientId)
    @@ Field("OAUTH2_CLIENT_CREDENTIALS_SCOPE", scope)
    @@ Field("OAUTH2_CLIENT_CREDENTIALS_AUDIENCE", audience)
    @@ Field("OAUTH2_CLIENT_CREDENTIALS_AUTH_STYLE", authStyle)

BearerOpts ==
    { <<>>, << <<>> >>, << <<"s">> >>, << BearerPrefix \o <<"s">> >>,
      << BearerPrefix \o BearerPrefix \o <<"s">> >> }
OAuthOpts == { <<>>, << <<"p">> >>, << BearerPrefix \o <<"p">> >> }
UserOpts == { <<>>, << <<"u">> >> }
PassOpts == { <<>>, << <<"p">> >> }
ClientSecretOpts == { <<>>, << <<"s", "c">> >> }

SecretsAll ==
    { MkSecrets(b, u, p, o, c) :
        b \in BearerOpts, u \in UserOpts, p \in PassOpts, o \in OAuthOpts,
        c \in ClientSecretOpts }

SecretsSmall ==
    { MkSecrets(<<>>, <<>>, <<>>, <<>>, <<>>),
      MkSecrets(<< <<"s">> >>, <<>>, <<>>, <<>>, <<>>),
      MkSecrets(<<>>, <<>>, <<>>, <<>>, << <<"s", "c">> >>) }

SecretsClientCredentials ==
    { MkSecrets(<<>>, <<>>, <<>>, <<>>, << <<"s", "c">> >>) }

EnvSmall ==
    { MkEnv(a, << <<"u">> >>, << <<"i">> >>, <<>>, <<>>, <<>>) :
        a \in EnvAddressOpts }

EnvAddressed ==
    { MkEnv(a, << <<"u">> >>, << <<"i">> >>, <<>>, <<>>, <<>>) :
        a \in { <<>>, << <<"e", "/">> >> } }

EnvAll ==
    { MkEnv(a, t, i, s, d, y) :
        a \in { <<>>, << <<"e", "/">> >> },
        t \in { <<>>, << <<"u">> >> },
        i \in { <<>>, << <<"i">> >> },
        s \in { <<>>, << <<"s">> >> },
        d \in { <<>>, << <<"p">> >> },
        y \in { <<>>, << InParams >>, << <<"i">> >> } }

MkContext(env, secrets) == [environment |-> env, secrets |-> secrets]

(* The length the README gives as the limit of a message *)
MaxTextLength == 4000

(* A text one character longer than the limit *)
LongText == [i \in 1..(MaxTextLength + 1) |-> "x"]

ParamsLong ==
    { MkParams(<<LongText>>, << <<"#", "c">> >>, w, << <<"a">> >>) :
        w \in { <<>>, <<TRUE>> } }

(* The inputs of the model: every params with a few contexts, a few params *)
(* with every combination of secrets and with every environment of the     *)
(* client-credentials flow, and a text longer than the limit with a bearer *)
(* secret.  <<>> is a context without environment or secrets.              *)
Inputs ==
    (ParamsAll \X ({ MkContext(e, s) : e \in EnvSmall, s \in SecretsSmall }
                   \cup { <<>> }))
    \cup (ParamsSmall \X { MkContext(e, s) : e \in EnvAddressed, s \in SecretsAll })
    \cup (ParamsSmall \X { MkContext(e, s) :
                             e \in EnvAll, s \in SecretsClientCredentials })
    \cup (ParamsLong \X { MkContext(MkEnv(<<>>, <<>>, <<>>, <<>>, <<>>, <<>>),
                                    MkSecrets(<< <<"s">> >>, <<>>, <<>>, <<>>,
                                              <<>>)) })

(* Responses of the token endpoint: raw is the body text, parsed is the    *)
(* option of the object the body parses to as JSON.                        *)
TokenResponses ==
    { [status |-> 200, statusText |-> "OK", raw |-> "{\"access_token\":\"x\"}",
       parsed |-> << [access_token |-> <<"x">>] >>],
      [status |-> 200, statusText |-> "OK", raw |-> "{\"access_token\":\"\"}",
       parsed |-> << [access_token |-> <<>>] >>],
      [status |-> 200, statusText |-> "OK", raw |-> "{}", parsed |-> << <<>> >>],
      [status |-> 200, statusText |-> "OK", raw |-> "<html>", parsed |-> <<>>],
      [status |-> 401, statusText |-> "Unauthorized",
       raw |-> "{\"error\":\"invalid_client\"}",
       parsed |-> << [error |-> "invalid_client"] >>],
      [status |-> 503, statusText |-> "Service Unavailable",
       raw |-> "<html>", parsed |-> <<>>] }

(* Responses of the webhook and of chat.postMessage *)
SendBodies ==
    { [raw |-> "ok", parsed |-> <<>>],
      [raw |-> "invalid_payload", parsed |-> <<>>],
      [raw |-> "{\"ok\":true,\"ts\":\"123.456\",\"channel\":\"C9\"}",
       parsed |-> << [ok |-> TRUE, ts |-> "123.456", channel |-> <<"C", "9">>] >>],
      [raw |-> "{\"ok\":true,\"ts\":\"123.457\",\"channel\":\"C9\"}",
       parsed |-> << [ok |-> TRUE, ts |-> "123.457", channel |-> <<"C", "9">>] >>],
      [raw |-> "{\"ok\":true}", parsed |-> << [ok |-> TRUE] >>],
      [raw |-> "{\"ok\":false,\"error\":\"channel_not_found\"}",
       parsed |-> << [ok |-> FALSE, error |-> "channel_not_found"] >>],
      [raw |-> "{\"ok\":false}", parsed |-> << [ok |-> FALSE] >>],
      [raw |-> "{\"ok\":false,\"error\":\"\"}",
       parsed |-> << [ok |-> FALSE, error |-> ""] >>],
      [raw |-> "{\"error\":\"invalid_auth\"}",
       parsed |-> << [error |-> "invalid_auth"] >>] }

SendResponses ==
    { [status |-> 200, statusText |-> "OK", raw |-> b.raw, parsed |-> b.parsed] :
        b \in SendBodies }
    \cup
    { [status |-> 201, statusText |-> "Created", raw |-> "ok", parsed |-> <<>>],
      [status |-> 404, statusText |-> "Not Found", raw |-> "", parsed |-> <<>>],
      [status |-> 429, statusText |-> "Too Many Requests",
       raw |-> "{\"ok\":true,\"ts\":\"123.456\",\"channel\":\"C9\"}",
       parsed |-> << [ok |-> TRUE, ts |-> "123.456", channel |-> <<"C", "9">>] >>],
      [status |-> 401, statusText |-> "Unauthorized", raw |-> "ok",
       parsed |-> <<>>],
      [status |-> 503, statusText |-> "Service Unavailable", raw |-> "",
       parsed |-> <<>>] }

-----------------------------------------------------------------------------
(* The state machine *)

Init ==
    /\ \E input \in Inputs : params = input[1] /\ context = input[2]
    /\ calls = 0
    /\ pc = "idle"
    /\ requests = <<>>
    /\ responses = <<>>
    /\ authHeader = <<>>
    /\ result = NoResult
    /\ error = NoError
    /\ previous = NoResult
    /\ handled = NoOutcome
    /\ log = <<>>

(* The step of invoke that ends in the state s *)
Becomes(s) ==
    /\ pc' = s.pc
    /\ requests' = s.requests
    /\ authHeader' = s.authHeader
    /\ result' = s.result
    /\ error' = s.error

(* invoke answering a repeated call from the result of the call before *)
Invoke_Deduplicates ==
    /\ pc \in {"idle", "returned", "failed"}
    /\ calls < MaxCalls
    /\ calls' = calls + 1
    /\ responses' = <<>>
    /\ IF result # NoResult
       THEN Becomes(Return(result[1], <<>>, <<>>))
       ELSE Becomes(InvokeStart(params, context))
    /\ previous' = result
    /\ log' = InvokeStartLog(params, context)
    /\ UNCHANGED <<params, context, handled>>

(* The framework calls invoke(params, context) *)
Invoke ==
    /\ pc \in {"idle", "returned", "failed"}
    /\ calls < MaxCalls
    /\ calls' = calls + 1
    /\ responses' = <<>>
    /\ Becomes(InvokeStart(params, context))
    /\ previous' = result
    /\ log' = InvokeStartLog(params, context)
    /\ UNCHANGED <<params, context, handled>>

(* The token endpoint answers the exchange *)
TokenResponds ==
    /\ pc = "awaitToken"
    /\ \E resp \in TokenResponses :
        /\ responses' = Append(responses,
               [response |-> resp, bodyRead |-> TokenExchangeResult(resp).bodyRead])
        /\ Becomes(InvokeAfterToken(params, context, resp, requests))
    /\ UNCHANGED <<params, context, calls, previous, handled, log>>

(* The webhook or chat.postMessage answers the send *)
SendResponds ==
    /\ pc = "awaitSend"
    /\ \E resp \in SendResponses :
        /\ responses' = Append(responses,
               [response |-> resp,
                bodyRead |-> IF IsWebhook(params)
                             THEN sendMessageViaWebhook(resp).bodyRead
                             ELSE sendMessageViaAPI(resp).bodyRead])
        /\ Becomes(InvokeAfterSend(params, resp, requests, authHeader))
        /\ log' = log \o InvokeAfterSendLog(params, resp)
    /\ UNCHANGED <<params, context, calls, previous, handled>>

(* The pending fetch rejects: no response arrives *)
FetchRejects ==
    /\ pc \in {"awaitToken", "awaitSend"}
    /\ Becomes(Throw(FetchFailedError, requests, authHeader))
    /\ UNCHANGED <<params, context, calls, responses, previous, handled, log>>

Next == Invoke \/ TokenResponds \/ SendResponds \/ FetchRejects

Spec == Init /\ [][Next]_vars

-----------------------------------------------------------------------------
(* The three entry points together: the framework calls the error handler  *)
(* with the error of a failed invoke, or with an error of its own, and     *)
(* calls the halt handler at any time.                                     *)

(* Errors the framework hands to the error handler without an invoke *)
ExternalErrors ==
    { <<"Rate limited: ", "429">>,
      <<"Server error: ", "503", " Service Unavailable">>,
      <<"Authentication failed: ", "401", " Unauthorized">>,
      <<"channel_not_found", ": Channel does not exist">>,
      <<"Network timeout">> }

(* The reasons are words that none of the secrets of InputsHandlers, one   *)
(* or two characters long, occurs in                                       *)
ReasonOpts == { <<>>, <<"timeout">>, <<"deadline">> }

Clock ==
    { [year |-> 2026, month |-> 11, day |-> 3, hour |-> 9, minute |-> 5,
       second |-> 7, ms |-> 42],
      [year |-> 2027, month |-> 1, day |-> 31, hour |-> 23, minute |-> 59,
       second |-> 59, ms |-> 999] }

InputsHandlers ==
    { <<p, MkContext(e, s)>> :
        p \in ParamsSmall,
        e \in EnvAddressed \cup { MkEnv(<<>>, <<>>, <<>>, <<>>, <<>>, <<>>) },
        s \in SecretsSmall }

InitHandlers ==
    /\ \E input \in InputsHandlers : params = input[1] /\ context = input[2]
    /\ calls = 0
    /\ pc = "idle"
    /\ requests = <<>>
    /\ responses = <<>>
    /\ authHeader = <<>>
    /\ result = NoResult
    /\ error = NoError
    /\ previous = NoResult
    /\ handled = NoOutcome
    /\ log = <<>>

(* The framework calls error({ ...params, error }, context) *)
ErrorHandler ==
    /\ pc \in {"idle", "returned", "failed"}
    /\ \E e \in ExternalErrors \cup (IF pc = "failed" THEN {error} ELSE {}) :
         LET p == [error |-> e]
         IN  handled' = << [handler |-> "error", params |-> p,
                            logged |-> errorHandlerLog(p)]
                           @@ errorHandler(p) >>
    /\ UNCHANGED <<params, context, calls, pc, requests, responses, authHeader,
                   result, error, previous, log>>

(* The framework calls halt({ reason }, context) *)
Halt ==
    /\ \E reason \in ReasonOpts, now \in Clock :
         LET p == Field("reason", reason)
         IN  handled' = << [handler |-> "halt", params |-> p, now |-> now,
                            logged |-> haltLog(p)]
                          @@ halt(p, now) >>
    /\ UNCHANGED <<params, context, calls, pc, requests, responses, authHeader,
                   result, error, previous, log>>

NextHandlers == Next \/ ErrorHandler \/ Halt

SpecHandlers == InitHandlers /\ [][NextHandlers]_vars

-----------------------------------------------------------------------------
(* Vocabulary of the properties *)

(* The value of the key is absent, empty or made of whitespace only *)
Blank(obj, key) ==
    key \notin DOMAIN obj \/ \A i \in DOMAIN obj[key] : obj[key][i] \in Whitespace

(* invoke has been called and the state is that of the current call *)
Called == calls > 0

WebhookMode == "isWebhook" \in DOMAIN params /\ params.isWebhook = TRUE
ApiMode == ~WebhookMode

(* The response the send request got, when it got one *)
SendAnswered ==
    /\ requests # <<>>
    /\ requests[Len(requests)].kind = "send"
    /\ Len(responses) = Len(requests)
SendResponse == responses[Len(responses)].response
Is2xx(resp) == resp.status \in 200..299

-----------------------------------------------------------------------------
(* C1: whenever invoke is called with a text that is absent, empty or      *)
(* whitespace-only, in either mode and whatever the channel, the address   *)
(* and the credentials are, it fails with exactly the message 'text        *)
(* parameter is required and cannot be empty' and issues no HTTP request;  *)
(* the text check wins over the channel check.                             *)
C1_BlankTextFails ==
    (Called /\ Blank(params, "text")) =>
        /\ pc = "failed"
        /\ error = <<"text parameter is required and cannot be empty">>
        /\ result = NoResult
        /\ requests = <<>>
        /\ responses = <<>>

(* A whitespace-only text with a blank channel and credentials present *)
C1_Witness ==
    /\ Called
    /\ "text" \in DOMAIN params /\ params.text = <<" ", "\t">>
    /\ Blank(params, "channel")
    /\ ApiMode
    /\ Truthy(Secrets(context), "BEARER_AUTH_TOKEN")
    /\ pc = "failed"
    /\ error = TextRequiredMsg

(* C2: an API-mode invoke (isWebhook false or absent) with a non-blank     *)
(* text and a channel that is absent, empty or whitespace-only fails with  *)
(* 'channel parameter is required for API mode' before any credential      *)
(* resolution, token exchange or send request.                             *)
C2_BlankChannelFails ==
    (Called /\ ApiMode /\ ~Blank(params, "text") /\ Blank(params, "channel")) =>
        /\ pc = "failed"
        /\ error = <<"channel parameter is required for API mode">>
        /\ result = NoResult
        /\ authHeader = <<>>
        /\ requests = <<>>

(* A whitespace-only channel, isWebhook absent, and no credentials at all: *)
(* the channel error comes before the credentials error.                   *)
C2_Witness ==
    /\ Called
    /\ "isWebhook" \notin DOMAIN params
    /\ ~Blank(params, "text")
    /\ "channel" \in DOMAIN params /\ params.channel = <<" ">>
    /\ DOMAIN Secrets(context) = {}
    /\ pc = "failed"
    /\ error = ChannelRequiredMsg

(* C3: a webhook-mode invoke whose single POST gets a 2xx response returns *)
(* {status: 'success', text: the input text, mode: 'webhook', ok} where ok *)
(* is true exactly when the response body is the string 'ok'.              *)
C3_WebhookSuccess ==
    (Called /\ WebhookMode /\ SendAnswered /\ Is2xx(SendResponse)) =>
        /\ pc = "returned"
        /\ error = NoError
        /\ Len(requests) = 1
        /\ result = << [status |-> "success", text |-> params.text,
                        mode |-> "webhook",
                        ok |-> (SendResponse.raw = "ok")] >>

(* A 2xx response with the body 'invalid_payload': success with ok false *)
C3_Witness ==
    /\ Called /\ WebhookMode /\ SendAnswered
    /\ SendResponse.status = 200
    /\ SendResponse.raw = "invalid_payload"
    /\ pc = "returned"
    /\ result[1].status = "success"
    /\ result[1].ok = FALSE

-----------------------------------------------------------------------------
(* More vocabulary *)

(* The key is bound to a non-empty string *)
Present(obj, key) == key \in DOMAIN obj /\ obj[key] # <<>>

(* invoke got past its validation of text and channel in API mode *)
ApiValidated ==
    Called /\ ApiMode /\ ~Blank(params, "text") /\ ~Blank(params, "channel")

(* The parsed body of an API response that is 2xx and JSON, as an option *)
ApiBody ==
    IF ApiMode /\ SendAnswered /\ Is2xx(SendResponse) THEN SendResponse.parsed
    ELSE <<>>

BearerPresent == Present(Secrets(context), "BEARER_AUTH_TOKEN")
BasicPresent ==
    /\ Present(Secrets(context), "BASIC_USERNAME")
    /\ Present(Secrets(context), "BASIC_PASSWORD")
OAuthPresent == Present(Secrets(context), "OAUTH2_AUTHORIZATION_CODE_ACCESS_TOKEN")
ClientCredentialsPresent ==
    Present(Secrets(context), "OAUTH2_CLIENT_CREDENTIALS_CLIENT_SECRET")

RequestsOfKind(kind) == { i \in DOMAIN requests : requests[i].kind = kind }

(* C4: an API-mode invoke whose POST gets a 2xx response with ok true      *)
(* returns {status: 'success', mode: 'api', ok: true, text: the input      *)
(* text, ts: the ts of the response body, channel: the channel of the      *)
(* request}; the channel is never the one the response body reports.       *)
C4_ApiSuccess ==
    (ApiBody # <<>> /\ "ok" \in DOMAIN ApiBody[1] /\ ApiBody[1].ok = TRUE) =>
        /\ pc = "returned"
        /\ error = NoError
        /\ result # NoResult
        /\ DOMAIN result[1] \subseteq {"status", "mode", "ok", "text", "ts", "channel"}
        /\ result[1].status = "success"
        /\ result[1].mode = "api"
        /\ result[1].ok = TRUE
        /\ result[1].text = params.text
        /\ result[1].channel = params.channel
        /\ requests[Len(requests)].body.channel = params.channel
        /\ IF "ts" \in DOMAIN ApiBody[1]
           THEN "ts" \in DOMAIN result[1] /\ result[1].ts = ApiBody[1].ts
           ELSE "ts" \notin DOMAIN result[1]

(* The body reports the channel C9 and the ts 123.456 for a request to a   *)
(* channel with surrounding blanks.                                        *)
C4_Witness ==
    /\ ApiValidated /\ pc = "returned"
    /\ params.channel = <<" ", "#", "c", " ">>
    /\ ApiBody # <<>>
    /\ "channel" \in DOMAIN ApiBody[1] /\ ApiBody[1].channel = <<"C", "9">>
    /\ result[1].channel = <<" ", "#", "c", " ">>
    /\ result[1].ts = "123.456"

(* C5 as stated: an API-mode invoke whose POST gets a 2xx response with a  *)
(* body whose ok is false fails with 'Slack API error: <code>', <code>     *)
(* being the error field of the body, or 'Unknown error' when the body has *)
(* no error field.                                                         *)
C5_AsStated ==
    (ApiBody # <<>> /\ "ok" \in DOMAIN ApiBody[1] /\ ApiBody[1].ok = FALSE) =>
        /\ pc = "failed"
        /\ result = NoResult
        /\ error = <<"Slack API error: ",
                     IF "error" \in DOMAIN ApiBody[1] THEN ApiBody[1].error
                     ELSE "Unknown error">>

(* C5, amended: an API-mode invoke whose POST gets a 2xx response with a   *)
(* body whose ok is false fails, returning no result, with 'Slack API      *)
(* error: <code>', <code> being the error field of the body, or 'Unknown   *)
(* error' when the body has no error field or an empty one.                *)
C5_PlatformError ==
    (ApiBody # <<>> /\ "ok" \in DOMAIN ApiBody[1] /\ ApiBody[1].ok = FALSE) =>
        /\ pc = "failed"
        /\ result = NoResult
        /\ error = <<"Slack API error: ",
                     IF "error" \in DOMAIN ApiBody[1] /\ ApiBody[1].error # ""
                     THEN ApiBody[1].error
                     ELSE "Unknown error">>

(* A body {ok: false, error: ''}: the message says 'Unknown error' *)
C5_Witness ==
    /\ ApiBody # <<>>
    /\ ApiBody[1] = [ok |-> FALSE, error |-> ""]
    /\ pc = "failed"
    /\ error = <<"Slack API error: ", "Unknown error">>

(* C6: in either mode, when the send POST gets a non-2xx status, invoke    *)
(* fails with 'Webhook request failed: <status> <statusText>' (webhook) or *)
(* 'Slack API request failed: <status> <statusText>' (API), never reads    *)
(* the response body and returns no result.                                *)
C6_TransportError ==
    (Called /\ SendAnswered /\ ~Is2xx(SendResponse)) =>
        /\ pc = "failed"
        /\ result = NoResult
        /\ error = <<IF WebhookMode THEN "Webhook request failed: "
                     ELSE "Slack API request failed: ",
                     ToString(SendResponse.status), " ", SendResponse.statusText>>
        /\ responses[Len(responses)].bodyRead = FALSE

(* A 429 in API mode whose body, had it been read, says ok: true *)
C6_Witness ==
    /\ Called /\ ApiMode /\ SendAnswered
    /\ SendResponse.status = 429
    /\ SendResponse.parsed = << [ok |-> TRUE, ts |-> "123.456",
                                  channel |-> <<"C", "9">>] >>
    /\ pc = "failed"
    /\ error = <<"Slack API request failed: ", "429", " ", "Too Many Requests">>

(* The response is a failure: non-2xx, or in API mode a send answered with *)
(* a body whose ok is false.                                               *)
FailedResponse(i) ==
    \/ ~Is2xx(responses[i].response)
    \/ /\ requests[i].kind = "send" /\ ApiMode
       /\ responses[i].response.parsed # <<>>
       /\ "ok" \in DOMAIN responses[i].response.parsed[1]
       /\ responses[i].response.parsed[1].ok = FALSE

(* C7: in every execution of invoke at most one send POST is issued,       *)
(* preceded by at most one token-exchange POST, which occurs only in API   *)
(* mode when client-credentials is the scheme selected; the requests are   *)
(* issued one after the other, each after the answer to the one before;    *)
(* and after a failed response no further request is issued.               *)
C7_AtMostOneSendNoRetry ==
    /\ Len(requests) <= 2
    /\ Cardinality(RequestsOfKind("send")) <= 1
    /\ Cardinality(RequestsOfKind("token")) <= 1
    /\ \A i \in RequestsOfKind("send") : i = Len(requests)
    /\ \A i \in RequestsOfKind("token") :
          /\ i = 1
          /\ ApiMode
          /\ ClientCredentialsPresent
          /\ ~BearerPresent /\ ~BasicPresent /\ ~OAuthPresent
    /\ Len(responses) <= Len(requests)
    /\ Len(requests) <= Len(responses) + 1
    /\ (pc \in {"awaitToken", "awaitSend"}) => Len(requests) = Len(responses) + 1
    /\ \A i \in DOMAIN responses :
          FailedResponse(i) => (Len(requests) = i /\ pc = "failed")

(* A token exchange, then a send that gets a 503: two requests, no third *)
C7_Witness ==
    /\ Len(requests) = 2
    /\ requests[1].kind = "token" /\ requests[2].kind = "send"
    /\ Len(responses) = 2
    /\ responses[2].response.status = 503
    /\ pc = "failed"

(* C8: the authorization resolver returns the header of the first scheme,  *)
(* in the order bearer secret, basic pair, pre-issued OAuth2 token,        *)
(* client credentials, whose secrets are present, whatever the other       *)
(* secrets are; no token exchange is requested unless client credentials   *)
(* is the only scheme present.                                             *)
C8_SchemePriority ==
    ApiValidated =>
        LET secrets == Secrets(context)
            bearer(t) == IF Len(t) >= 7 /\ SubSeq(t, 1, 7) = BearerPrefix
                         THEN t ELSE BearerPrefix \o t
        IN  /\ BearerPresent =>
                /\ authHeader = << bearer(secrets.BEARER_AUTH_TOKEN) >>
                /\ RequestsOfKind("token") = {}
            /\ (~BearerPresent /\ BasicPresent) =>
                /\ secrets.BASIC_USERNAME = <<"u">> /\ secrets.BASIC_PASSWORD = <<"p">>
                /\ authHeader = << <<"B","a","s","i","c"," ","d","T","p","w">> >>
                /\ RequestsOfKind("token") = {}
            /\ (~BearerPresent /\ ~BasicPresent /\ OAuthPresent) =>
                /\ authHeader =
                     << bearer(secrets.OAUTH2_AUTHORIZATION_CODE_ACCESS_TOKEN) >>
                /\ RequestsOfKind("token") = {}
            /\ (~BearerPresent /\ ~BasicPresent /\ ~OAuthPresent
                  /\ ClientCredentialsPresent) =>
                /\ authHeader \in { <<>>, << BearerPrefix \o <<"x">> >> }
                /\ (Present(Env(context), "OAUTH2_CLIENT_CREDENTIALS_TOKEN_URL")
                      /\ Present(Env(context), "OAUTH2_CLIENT_CREDENTIALS_CLIENT_ID"))
                   => (requests # <<>> /\ requests[1].kind = "token")
            /\ (requests # <<>> /\ requests[Len(requests)].kind = "send") =>
                requests[Len(requests)].headers["Authorization"] = authHeader[1]

(* All four schemes present: the header sent is that of the bearer secret *)
C8_Witness ==
    /\ ApiValidated
    /\ BearerPresent /\ BasicPresent /\ OAuthPresent /\ ClientCredentialsPresent
    /\ Secrets(context).BEARER_AUTH_TOKEN = <<"s">>
    /\ pc = "returned"
    /\ requests[1].headers["Authorization"] = <<"B","e","a","r","e","r"," ","s">>

ExpectedAddress ==
    IF Present(params, "address") THEN << params.address >>
    ELSE IF Present(Env(context), "ADDRESS") THEN << Env(context).ADDRESS >>
    ELSE <<>>

(* v without its last character when that is a slash *)
WithoutOneSlash(v) ==
    IF v[Len(v)] = "/" THEN [i \in 1..(Len(v) - 1) |-> v[i]] ELSE v

(* invoke has reached its call of getBaseURL *)
AddressResolved ==
    /\ Called /\ ~Blank(params, "text")
    /\ WebhookMode \/ (~Blank(params, "channel") /\ authHeader # <<>>)

-----------------------------------------------------------------------------
(* The error handler *)

(* The error handler has been called; its outcome is handled[1] *)
ErrorHandled == handled # NoOutcome /\ handled[1].handler = "error"

(* The error the handler was given *)
GivenError == handled[1].params.error

(* The handler threw the error it was given, and returned nothing *)
Rethrown == handled[1].raised = <<GivenError>> /\ handled[1].returned = <<>>

(* A step of the error handler *)
ErrorHandlerStep ==
    /\ handled' # handled
    /\ handled' # NoOutcome
    /\ handled'[1].handler = "error"

(* The step leaves the state of invoke alone: no call of invoke, no request *)
InvokeUntouched ==
    UNCHANGED <<params, context, calls, pc, requests, responses, authHeader,
                result, error, previous, log>>

(* C11: given an error whose message contains '429', the error handler     *)
(* re-invokes the dispatcher once after a fixed delay, and ends by         *)
(* returning the result of that retry or by raising an error that wraps    *)
(* the failure of the retry.                                               *)
C11_AsStated ==
    [][ (ErrorHandlerStep /\ Mentions(handled'[1].params.error, "429")) =>
           /\ calls' = calls + 1
           /\ \/ handled'[1].returned # <<>>
              \/ /\ handled'[1].raised # <<>>
                 /\ handled'[1].raised[1] # handled'[1].params.error ]_vars

(* C12: given an error whose message contains '502', '503' or '504', or    *)
(* none of the recognised tokens, the error handler returns {status:       *)
(* 'retry_requested'} instead of raising.                                  *)
C12_AsStated ==
    (/\ ErrorHandled
     /\ \/ \E t \in ServerTokens : Mentions(GivenError, t)
        \/ \A t \in FatalTokens \cup {"429"} : ~Mentions(GivenError, t)) =>
        /\ handled[1].returned = <<RetryRequested>>
        /\ handled[1].raised = <<>>

(* C13: given an error whose message contains '401', '403',                *)
(* 'invalid_auth', 'channel_not_found' or 'is required', the error handler *)
(* raises that error with its message unchanged, returns no value, and     *)
(* makes no network call and no call of invoke.                            *)
C13_FatalRethrown ==
    [][ (ErrorHandlerStep
           /\ \E t \in FatalTokens : Mentions(handled'[1].params.error, t)) =>
           /\ handled'[1].raised = << handled'[1].params.error >>
           /\ handled'[1].returned = <<>>
           /\ InvokeUntouched ]_vars

(* The handler given the 'channel parameter is required for API mode'      *)
(* error of a failed invoke                                                *)
C13_Witness ==
    /\ ErrorHandled
    /\ pc = "failed" /\ error = ChannelRequiredMsg
    /\ GivenError = <<"channel parameter is required for API mode">>
    /\ handled[1].raised = << <<"channel parameter is required for API mode">> >>
    /\ requests = <<>> /\ calls = 1

FailedBeforeSend == pc = "failed" /\ RequestsOfKind("send") = {}

(* C15: when the framework hands to the error handler the error invoke     *)
(* raised for a validation failure, a configuration failure or a failure   *)
(* of the token exchange, the handler raises it again; it does not call    *)
(* invoke and does not return retry_requested.                             *)
C15_FatalEndToEnd ==
    [][ (ErrorHandlerStep /\ FailedBeforeSend /\ handled'[1].params.error = error) =>
           /\ handled'[1].raised = <<error>>
           /\ handled'[1].returned = <<>>
           /\ calls' = calls
           /\ pc' = "failed" /\ error' = error
           /\ requests' = requests ]_vars

(* The 401 of the token endpoint, handed to the handler: rethrown, and the *)
(* send request was never issued                                           *)
C15_Witness ==
    /\ ErrorHandled
    /\ FailedBeforeSend
    /\ Len(requests) = 1 /\ requests[1].kind = "token"
    /\ Len(responses) = 1 /\ responses[1].response.status = 401
    /\ GivenError = error
    /\ error[1] = "OAuth2 token request failed: "
    /\ Rethrown

-----------------------------------------------------------------------------
(* Propagation of the errors of invoke *)

(* The messages of the errors that arise in the current call of invoke,    *)
(* each as the step that raised it worded it                               *)
RaisedInside ==
    (IF Blank(params, "text") THEN {TextRequiredMsg} ELSE {})
    \cup (IF ApiMode /\ Blank(params, "channel") THEN {ChannelRequiredMsg} ELSE {})
    \cup (IF ExpectedAddress = <<>> THEN {NoUrlMsg} ELSE {})
    \cup (IF ApiMode /\ getAuthorizationHeader(context).kind = "throw"
          THEN {getAuthorizationHeader(context).error} ELSE {})
    \cup { TokenExchangeResult(responses[i].response).error :
             i \in { j \in DOMAIN responses :
                       /\ requests[j].kind = "token"
                       /\ ~TokenExchangeResult(responses[j].response).ok } }
    \cup { (IF WebhookMode THEN sendMessageViaWebhook(responses[i].response)
            ELSE sendMessageViaAPI(responses[i].response)).error :
             i \in { j \in DOMAIN responses :
                       /\ requests[j].kind = "send"
                       /\ ~(IF WebhookMode
                            THEN sendMessageViaWebhook(responses[j].response)
                            ELSE sendMessageViaAPI(responses[j].response)).ok } }
    \cup (IF Len(requests) > Len(responses) THEN {FetchFailedError} ELSE {})

-----------------------------------------------------------------------------
(* The halt handler *)

(* A step of the halt handler *)
HaltStep ==
    /\ handled' # handled
    /\ handled' # NoOutcome
    /\ handled'[1].handler = "halt"

Digits == {"0", "1", "2", "3", "4", "5", "6", "7", "8", "9"}

(* The string has the form YYYY-MM-DDTHH:mm:ss.sssZ *)
IsTimestamp(t) ==
    /\ Len(t) = 24
    /\ t[5] = "-" /\ t[8] = "-" /\ t[11] = "T" /\ t[14] = ":" /\ t[17] = ":"
    /\ t[20] = "." /\ t[24] = "Z"
    /\ \A i \in (1..23) \ {5, 8, 11, 14, 17, 20} : t[i] \in Digits

(* The timestamp of the clock readings of the model, written out *)
StampOf(now) ==
    IF now.year = 2026
    THEN <<"2","0","2","6","-","1","1","-","0","3","T","0","9",":","0","5",
           ":","0","7",".","0","4","2","Z">>
    ELSE <<"2","0","2","7","-","0","1","-","3","1","T","2","3",":","5","9",
           ":","5","9",".","9","9","9","Z">>

(* C17: whenever the halt handler is called, and whatever the reason, it   *)
(* returns {status: 'halted', reason: the reason it was given, halted_at:  *)
(* the timestamp of the time of the call}; it raises nothing, issues no    *)
(* request and changes nothing.                                            *)
C17_Halt ==
    [][ HaltStep =>
          LET h == handled'[1]
          IN  /\ h.raised = <<>>
              /\ h.returned # <<>>
              /\ h.returned[1].status = "halted"
              /\ IsTimestamp(h.returned[1].halted_at)
              /\ h.returned[1].halted_at = StampOf(h.now)
              /\ IF "reason" \in DOMAIN h.params
                 THEN /\ DOMAIN h.returned[1] = {"status", "reason", "halted_at"}
                      /\ h.returned[1].reason = h.params.reason
                 ELSE DOMAIN h.returned[1] = {"status", "halted_at"}
              /\ InvokeUntouched ]_vars

(* halt called with the reason 'timeout' while invoke awaits the answer to *)
(* its send request                                                        *)
C17_Witness ==
    /\ handled # NoOutcome /\ handled[1].handler = "halt"
    /\ pc = "awaitSend" /\ Len(requests) = 1 /\ responses = <<>>
    /\ handled[1].params = [reason |-> "timeout"]
    /\ handled[1].returned[1].reason = "timeout"
    /\ handled[1].returned[1].status = "halted"
    /\ handled[1].returned[1].halted_at =
         <<"2","0","2","6","-","1","1","-","0","3","T","0","9",":","0","5",
           ":","0","7",".","0","4","2","Z">>

-----------------------------------------------------------------------------
(* Repeated calls *)

(* The ts of a result, as an option *)
TsOf(r) == IF r # NoResult /\ "ts" \in DOMAIN r[1] THEN <<r[1].ts>> ELSE <<>>

-----------------------------------------------------------------------------
(* The client-credentials flow *)

(* Client credentials is the scheme the resolver selects *)
ClientCredentialsSelected ==
    /\ ApiValidated
    /\ ClientCredentialsPresent
    /\ ~BearerPresent /\ ~BasicPresent /\ ~OAuthPresent

(* The answer of the token endpoint is 2xx with an access token in it *)
TokenGranted(resp) ==
    /\ Is2xx(resp)
    /\ resp.parsed # <<>>
    /\ Present(resp.parsed[1], "access_token")

(* C19: when client credentials is the scheme selected: without the token  *)
(* URL or the client id in the environment, invoke fails before any        *)
(* request; otherwise exactly one token POST is made, and it is answered   *)
(* before the send POST is issued; when the answer is not 2xx or has no    *)
(* access token, invoke fails and the send POST is never issued; otherwise *)
(* the send POST carries the header 'Bearer <exchanged-token>'.            *)
C19_ClientCredentialsFlow ==
    ClientCredentialsSelected =>
        IF ~Present(Env(context), "OAUTH2_CLIENT_CREDENTIALS_TOKEN_URL")
             \/ ~Present(Env(context), "OAUTH2_CLIENT_CREDENTIALS_CLIENT_ID")
        THEN /\ pc = "failed"
             /\ requests = <<>>
             /\ result = NoResult
        ELSE /\ requests # <<>>
             /\ RequestsOfKind("token") = {1}
             /\ requests[1].method = "POST"
             /\ requests[1].url = Env(context).OAUTH2_CLIENT_CREDENTIALS_TOKEN_URL
             /\ (responses = <<>>) => (Len(requests) = 1)
             /\ (responses # <<>> /\ ~TokenGranted(responses[1].response)) =>
                   /\ pc = "failed"
                   /\ result = NoResult
                   /\ RequestsOfKind("send") = {}
             /\ (responses # <<>> /\ TokenGranted(responses[1].response)) =>
                   LET bearer == <<"B","e","a","r","e","r"," ">>
                                   \o responses[1].response.parsed[1].access_token
                   IN  /\ authHeader = <<bearer>>
                       /\ IF ExpectedAddress = <<>>
                          THEN RequestsOfKind("send") = {}
                          ELSE /\ RequestsOfKind("send") = {2}
                               /\ requests[2].headers["Authorization"] = bearer

(* The exchange answers 200 with an empty access token: no send POST *)
C19_Witness ==
    /\ ClientCredentialsSelected
    /\ Len(requests) = 1 /\ requests[1].kind = "token"
    /\ Len(responses) = 1
    /\ responses[1].response.status = 200
    /\ responses[1].response.parsed = << [access_token |-> <<>>] >>
    /\ ExpectedAddress # <<>>
    /\ pc = "failed"
    /\ error = <<"No access_token in OAuth2 response">>

-----------------------------------------------------------------------------
(* Webhook mode *)

(* The params without the channel, and the context with empty secrets *)
WithoutChannel(p) == [k \in (DOMAIN p) \ {"channel"} |-> p[k]]
WithoutSecrets(ctx) ==
    IF "secrets" \in DOMAIN ctx THEN [ctx EXCEPT !.secrets = <<>>] ELSE ctx

(* C20: in webhook mode, whatever the secrets and the channel are, no      *)
(* authorization header is resolved, no token request is made, the one     *)
(* POST has no Authorization header and its body has the text only, and    *)
(* the requests and the outcome are those of the same call made with empty *)
(* secrets and no channel.                                                 *)
C20_WebhookIgnoresSecrets ==
    (Called /\ WebhookMode) =>
        LET start == InvokeStart(WithoutChannel(params), WithoutSecrets(context))
            end == IF responses = <<>> THEN start
                   ELSE InvokeAfterSend(WithoutChannel(params), SendResponse,
                                        start.requests, start.authHeader)
        IN  /\ authHeader = <<>>
            /\ RequestsOfKind("token") = {}
            /\ Len(requests) <= 1
            /\ \A i \in DOMAIN requests :
                  /\ requests[i].kind = "send"
                  /\ "Authorization" \notin DOMAIN requests[i].headers
                  /\ DOMAIN requests[i].body = {"text"}
                  /\ requests[i].body.text = params.text
            /\ requests = start.requests
            /\ (pc # "failed" \/ Len(requests) = Len(responses) \/ requests = <<>>) =>
                  /\ pc = end.pc
                  /\ result = end.result
                  /\ error = end.error

(* A webhook call with a channel and a bearer secret, answered 200 'ok' *)
C20_Witness ==
    /\ Called /\ WebhookMode
    /\ Present(params, "channel")
    /\ BearerPresent
    /\ pc = "returned"
    /\ Len(requests) = 1
    /\ DOMAIN requests[1].headers = {"Content-Type", "User-Agent"}
    /\ requests[1].body = [text |-> params.text]
    /\ result[1].ok = TRUE

-----------------------------------------------------------------------------
(* The default of the address *)

(* C21: the address defaults to https://slack.com: an API-mode invoke with *)
(* valid text, channel and credentials, no address parameter and no        *)
(* ADDRESS in the environment sends its POST to                            *)
(* https://slack.com/api/chat.postMessage and does not fail for the lack   *)
(* of an address.                                                          *)
C21_AsStated ==
    (AddressResolved /\ ApiMode /\ ExpectedAddress = <<>>) =>
        /\ error # <<"No URL specified. Provide address parameter or ADDRESS environment variable">>
        /\ requests # <<>>
        /\ requests[Len(requests)].kind = "send"
        /\ requests[Len(requests)].url =
             <<"h","t","t","p","s",":","/","/","s","l","a","c","k",".","c","o","m",
               "/","a","p","i","/","c","h","a","t",".","p","o","s","t",
               "M","e","s","s","a","g","e">>

-----------------------------------------------------------------------------
(* The limit of the length of a message *)

(* C22: messages are limited to 4000 characters: invoke issues no send     *)
(* request, webhook or API, whose text is longer than 4000 characters, and *)
(* returns no result of status 'success' with a text longer than that.     *)
C22_AsStated ==
    /\ \A i \in RequestsOfKind("send") : Len(requests[i].body.text) <= 4000
    /\ (result # NoResult /\ result[1].status = "success") =>
          Len(result[1].text) <= 4000

-----------------------------------------------------------------------------
(* Credentials and the log *)

(* s is not empty and occurs in t *)
Infix(s, t) ==
    /\ Len(s) > 0
    /\ \E i \in 0..(Len(t) - Len(s)) : SubSeq(t, i + 1, i + Len(s)) = s

(* The secret values, the resolved header and the exchanged tokens *)
Sensitive ==
    { Secrets(context)[k] : k \in DOMAIN Secrets(context) }
    \cup { authHeader[i] : i \in DOMAIN authHeader }
    \cup { responses[i].response.parsed[1].access_token :
             i \in { j \in DOMAIN responses :
                       /\ requests[j].kind = "token"
                       /\ TokenGranted(responses[j].response) } }

(* The lines written so far: by the current call of invoke and by the last *)
(* call of a handler                                                       *)
LogLines ==
    log \o (IF handled # NoOutcome THEN handled[1].logged ELSE <<>>)

(* The lines of invoke, from the params and the answer to the send alone *)
ExpectedLog ==
    IF ~Called THEN <<>>
    ELSE << [template |-> "Starting Slack send message action", args |-> <<>>] >>
         \o (IF Blank(params, "text") THEN <<>>
             ELSE IF WebhookMode
             THEN << [template |-> "Using webhook mode", args |-> <<>>] >>
             ELSE << [template |-> "Using API mode", args |-> <<>>] >>)
         \o (IF pc # "returned" THEN <<>>
             ELSE IF WebhookMode
             THEN << [template |-> "Message sent via webhook. Status: ${result.status}",
                      args |-> << IF SendResponse.status = 200
                                  THEN <<"2","0","0">> ELSE <<"2","0","1">> >>] >>
             ELSE << [template |-> "Message sent via API to channel ${channel}. Timestamp: ${result.ts}",
                      args |-> << params.channel,
                                  IF "ts" \in DOMAIN SendResponse.parsed[1]
                                  THEN CharsOf(SendResponse.parsed[1].ts)
                                  ELSE <<"u","n","d","e","f","i","n","e","d">> >>] >>)

(* The result of invoke, from the params and the answer to the send alone *)
ExpectedResult ==
    IF pc # "returned" THEN <<>>
    ELSE IF WebhookMode
    THEN << [status |-> "success", text |-> params.text, mode |-> "webhook",
             ok |-> (SendResponse.raw = "ok")] >>
    ELSE << [status |-> "success", text |-> params.text, mode |-> "api",
             channel |-> params.channel, ok |-> TRUE]
            @@ (IF "ts" \in DOMAIN SendResponse.parsed[1]
                THEN [ts |-> SendResponse.parsed[1].ts] ELSE <<>>) >>

(* C23: credentials are never logged or persisted: no string written into  *)
(* a log line by invoke, error or halt contains a secret value, the        *)
(* resolved header or an exchanged token; the log and the result are fixed *)
(* by the params and the answers alone, so that runs differing only in the *)
(* values of the secrets log and return the same; and the resolved header  *)
(* is placed nowhere but in the Authorization header of the send request.  *)
C23_CredentialsNotLogged ==
    /\ \A i \in DOMAIN LogLines : \A j \in DOMAIN LogLines[i].args :
          \A s \in Sensitive : ~Infix(s, LogLines[i].args[j])
    /\ log = ExpectedLog
    /\ result = ExpectedResult
    /\ (handled # NoOutcome /\ handled[1].handler = "error") =>
          handled[1].logged = <<>>
    /\ (handled # NoOutcome /\ handled[1].handler = "halt") =>
          /\ Len(handled[1].logged) = 1
          /\ handled[1].logged[1].template =
               "Slack send message action halted: ${reason}"
          /\ handled[1].logged[1].args =
               << IF "reason" \in DOMAIN handled[1].params
                  THEN CharsOf(handled[1].params.reason)
                  ELSE <<"u","n","d","e","f","i","n","e","d">> >>
    /\ \A i \in DOMAIN requests :
          /\ \A k \in DOMAIN authHeader : ~Infix(authHeader[k], requests[i].url)
          /\ (requests[i].kind = "send") =>
                /\ requests[i].body.text = params.text
                /\ DOMAIN requests[i].headers \subseteq
                     {"Authorization", "Content-Type", "User-Agent"}
                /\ requests[i].headers["Content-Type"] = "application/json"
                /\ requests[i].headers["User-Agent"] = "SGNL-CAEP-Hub/2.0"
                /\ ("Authorization" \in DOMAIN requests[i].headers) =>
                      requests[i].headers["Authorization"] = authHeader[1]

(* An API call with the bearer secret s has returned, three lines logged,  *)
(* and halt has logged its reason                                          *)
C23_Witness ==
    /\ Called /\ ApiMode /\ pc = "returned"
    /\ BearerPresent
    /\ authHeader = << <<"B","e","a","r","e","r"," ","s">> >>
    /\ Len(log) = 3
    /\ log[3].args = << <<"#", "c">>, <<"1","2","3",".","4","5","6">> >>
    /\ handled # NoOutcome /\ handled[1].handler = "halt"
    /\ handled[1].logged[1].args = << <<"t","i","m","e","o","u","t">> >>

-----------------------------------------------------------------------------
(* The order of the steps in API mode *)

(* The environment has the token URL and the client id of the exchange *)
ExchangeConfigured ==
    /\ Present(Env(context), "OAUTH2_CLIENT_CREDENTIALS_TOKEN_URL")
    /\ Present(Env(context), "OAUTH2_CLIENT_CREDENTIALS_CLIENT_ID")

-----------------------------------------------------------------------------
(* The bearer prefix *)

(* The token of the scheme selected, when that is the bearer secret or the *)
(* pre-issued OAuth2 token; the key of the secret that holds it            *)
BearerKey ==
    IF BearerPresent THEN "BEARER_AUTH_TOKEN"
    ELSE "OAUTH2_AUTHORIZATION_CODE_ACCESS_TOKEN"
BearerSelected ==
    /\ ApiValidated
    /\ BearerPresent \/ (~BasicPresent /\ OAuthPresent)

HasBearerPrefix(t) ==
    Len(t) >= 7 /\ SubSeq(t, 1, 7) = <<"B","e","a","r","e","r"," ">>
HasDoublePrefix(t) ==
    /\ Len(t) >= 14
    /\ SubSeq(t, 1, 14) = <<"B","e","a","r","e","r"," ","B","e","a","r","e","r"," ">>

(* The header resolved from the context whose secret is the header itself *)
FedBack ==
    getAuthorizationHeader(
        [context EXCEPT !.secrets = (BearerKey :> authHeader[1]) @@ @])

(* C25 as stated: for a bearer secret or a pre-issued OAuth2 token t the   *)
(* resolver returns t when t starts with 'Bearer ' and 'Bearer ' followed  *)
(* by t otherwise, so that the header never starts with 'Bearer Bearer ',  *)
(* and resolving with the header as the secret gives the same header.      *)
C25_AsStated ==
    BearerSelected =>
        LET t == Secrets(context)[BearerKey]
        IN  /\ authHeader = << IF HasBearerPrefix(t) THEN t
                               ELSE <<"B","e","a","r","e","r"," ">> \o t >>
            /\ ~HasDoublePrefix(authHeader[1])
            /\ FedBack.kind = "header" /\ FedBack.value = authHeader[1]

(* C25, amended: the resolver returns t when t starts with 'Bearer ' and   *)
(* 'Bearer ' followed by t otherwise; it never adds a second prefix, the   *)
(* header starting with 'Bearer Bearer ' only when t itself does; and      *)
(* resolving with the header as the secret gives the same header.          *)
C25_BearerPrefixIdempotent ==
    BearerSelected =>
        LET t == Secrets(context)[BearerKey]
        IN  /\ authHeader = << IF HasBearerPrefix(t) THEN t
                               ELSE <<"B","e","a","r","e","r"," ">> \o t >>
            /\ HasDoublePrefix(authHeader[1]) => HasDoublePrefix(t)
            /\ FedBack.kind = "header" /\ FedBack.value = authHeader[1]

(* The secret 'Bearer s' is sent as it is *)
C25_Witness ==
    /\ BearerSelected /\ BearerPresent
    /\ Secrets(context).BEARER_AUTH_TOKEN = <<"B","e","a","r","e","r"," ","s">>
    /\ authHeader = << <<"B","e","a","r","e","r"," ","s">> >>
    /\ pc = "awaitSend"
    /\ requests[1].headers["Authorization"] = <<"B","e","a","r","e","r"," ","s">>

-----------------------------------------------------------------------------
(* The request of the token exchange *)

(* The values the form body of the request gives to the key *)
FormValues(q, key) == { q.body[j][2] : j \in { k \in DOMAIN q.body : q.body[k][1] = key } }

(* C26: the token request carries the client credentials in one place      *)
(* only: with the style flag 'InParams' the form body has client_id and    *)
(* client_secret and there is no Authorization header; with any other flag *)
(* or none there is the header 'Basic <base64(clientId:clientSecret)>' and *)
(* the body has neither; in both cases the body has                        *)
(* grant_type=client_credentials, and scope and audience only when they    *)
(* are configured.                                                         *)
C26_TokenRequest ==
    \A i \in RequestsOfKind("token") :
        LET q == requests[i]
            env == Env(context)
            style == "OAUTH2_CLIENT_CREDENTIALS_AUTH_STYLE"
        IN  /\ env.OAUTH2_CLIENT_CREDENTIALS_CLIENT_ID = <<"i">>
            /\ Secrets(context).OAUTH2_CLIENT_CREDENTIALS_CLIENT_SECRET = <<"s", "c">>
            /\ IF style \in DOMAIN env
                  /\ env[style] = <<"I","n","P","a","r","a","m","s">>
               THEN /\ FormValues(q, "client_id") = { <<"i">> }
                    /\ FormValues(q, "client_secret") = { <<"s", "c">> }
                    /\ "Authorization" \notin DOMAIN q.headers
               ELSE /\ FormValues(q, "client_id") = {}
                    /\ FormValues(q, "client_secret") = {}
                    /\ "Authorization" \in DOMAIN q.headers
                    /\ q.headers["Authorization"] =
                         <<"B","a","s","i","c"," ","a","T","p","z","Y","w","=","=">>
            /\ FormValues(q, "grant_type") =
                 { <<"c","l","i","e","n","t","_","c","r","e","d","e","n","t",
                     "i","a","l","s">> }
            /\ FormValues(q, "scope") =
                 (IF Present(env, "OAUTH2_CLIENT_CREDENTIALS_SCOPE")
                  THEN { env.OAUTH2_CLIENT_CREDENTIALS_SCOPE } ELSE {})
            /\ FormValues(q, "audience") =
                 (IF Present(env, "OAUTH2_CLIENT_CREDENTIALS_AUDIENCE")
                  THEN { env.OAUTH2_CLIENT_CREDENTIALS_AUDIENCE } ELSE {})
            /\ { q.body[j][1] : j \in DOMAIN q.body } \subseteq
                 {"grant_type", "scope", "audience", "client_id", "client_secret"}
            /\ Len(q.body) = Cardinality({ q.body[j][1] : j \in DOMAIN q.body })

(* The style InParams with a scope and no audience *)
C26_Witness ==
    /\ RequestsOfKind("token") = {1}
    /\ Present(Env(context), "OAUTH2_CLIENT_CREDENTIALS_AUTH_STYLE")
    /\ Env(context).OAUTH2_CLIENT_CREDENTIALS_AUTH_STYLE = InParams
    /\ Present(Env(context), "OAUTH2_CLIENT_CREDENTIALS_SCOPE")
    /\ ~Present(Env(context), "OAUTH2_CLIENT_CREDENTIALS_AUDIENCE")
    /\ requests[1].body =
         << <<"grant_type", ClientCredentialsGrant>>, <<"scope", <<"s">>>>,
            <<"client_id", <<"i">>>>, <<"client_secret", <<"s", "c">>>> >>
    /\ DOMAIN requests[1].headers = {"Content-Type", "Accept", "User-Agent"}

-----------------------------------------------------------------------------
(* The basic scheme *)

(* One of the username and the password is present, the other is not, and  *)
(* there is no bearer secret                                               *)
HalfBasic ==
    /\ ApiValidated
    /\ ~BearerPresent
    /\ Present(Secrets(context), "BASIC_USERNAME")
         # Present(Secrets(context), "BASIC_PASSWORD")

(* C27: the basic scheme matches only with both the username and the       *)
(* password: with one of the two, and no bearer secret, the resolver       *)
(* returns no Basic header; it goes on to the pre-issued OAuth2 token,     *)
(* then to client credentials, and fails with 'No authentication           *)
(* configured' when neither is present.                                    *)
C27_BasicNeedsBoth ==
    HalfBasic =>
        /\ \A k \in DOMAIN authHeader :
              SubSeq(authHeader[k], 1, 6) # <<"B","a","s","i","c"," ">>
        /\ \A i \in DOMAIN requests :
              requests[i].kind = "send" =>
                 SubSeq(requests[i].headers["Authorization"], 1, 6)
                   # <<"B","a","s","i","c"," ">>
        /\ IF OAuthPresent
           THEN LET t == Secrets(context).OAUTH2_AUTHORIZATION_CODE_ACCESS_TOKEN
                IN  /\ authHeader = << IF HasBearerPrefix(t) THEN t
                                       ELSE <<"B","e","a","r","e","r"," ">> \o t >>
                    /\ RequestsOfKind("token") = {}
           ELSE IF ClientCredentialsPresent
           THEN IF ExchangeConfigured
                THEN requests # <<>> /\ requests[1].kind = "token"
                ELSE pc = "failed" /\ requests = <<>>
           ELSE /\ pc = "failed"
                /\ error[1] = "No authentication configured"
                /\ authHeader = <<>>
                /\ requests = <<>>

(* Only the password and a pre-issued OAuth2 token: the header is the      *)
(* bearer of that token                                                    *)
C27_Witness ==
    /\ HalfBasic
    /\ DOMAIN Secrets(context) =
         {"BASIC_PASSWORD", "OAUTH2_AUTHORIZATION_CODE_ACCESS_TOKEN"}
    /\ Secrets(context).OAUTH2_AUTHORIZATION_CODE_ACCESS_TOKEN = <<"p">>
    /\ authHeader = << <<"B","e","a","r","e","r"," ","p">> >>
    /\ pc = "awaitSend"

-----------------------------------------------------------------------------
(* Trimming *)

(* C28: trimming is used only to validate: the text of the request body    *)
(* and of the result, and in API mode the channel of the request body and  *)
(* of the result, are the input values as they are, with their leading and *)
(* trailing whitespace.                                                    *)
C28_TrimOnlyValidates ==
    /\ \A i \in RequestsOfKind("send") :
          /\ requests[i].body.text = params.text
          /\ IF ApiMode
             THEN /\ DOMAIN requests[i].body = {"text", "channel"}
                  /\ requests[i].body.channel = params.channel
             ELSE DOMAIN requests[i].body = {"text"}
    /\ (result # NoResult) =>
          /\ result[1].text = params.text
          /\ ApiMode => result[1].channel = params.channel

(* ' hi ' sent to ' #c ' in API mode, and echoed *)
C28_Witness ==
    /\ Called /\ ApiMode /\ pc = "returned"
    /\ params.text = <<" ", "h", "i", " ">>
    /\ params.channel = <<" ", "#", "c", " ">>
    /\ requests[Len(requests)].body =
         [text |-> <<" ", "h", "i", " ">>, channel |-> <<" ", "#", "c", " ">>]
    /\ result[1].text = <<" ", "h", "i", " ">>
    /\ result[1].channel = <<" ", "#", "c", " ">>

====
